---- MODULE Spec2Model ----
(***************************************************************************)
(* Model of project_aroundtheclock: the astronomical prayer-time engine    *)
(* (algorithms.py, prayer.py), the selector of the next five prayers and   *)
(* the time-difference utility; the main loop's hand-over to the          *)
(* serializer and the scheduler (main.py), the one-time block job          *)
(* (block.py) and the LED fade (led.py).                                   *)
(*                                                                         *)
(* Number representation.  The program computes with IEEE doubles; the     *)
(* model computes with integers in fixed point:                            *)
(*   - angles are in millidegrees (18.5 deg = 18500, 0.833 deg = 833);     *)
(*   - sines, cosines, tangents and ratios are scaled by SCALE;            *)
(*   - datetimes are whole seconds since 2000-01-01 00:00 local time, the  *)
(*     day before the J2000.0 epoch used by sunEquation;                   *)
(*   - timedeltas are whole seconds.                                       *)
(* The library functions sin, cos, acos, asin, atan, atan2 are computed    *)
(* from a one-degree sine table with linear interpolation.                 *)
(***************************************************************************)
EXTENDS Integers, Sequences, FiniteSets, TLC

VARIABLES pc, config, date, table, now, prayers, p1, p2, diff12, diff21,
          written, passed, jobs, stamp, tableAt,
          clock, route, log, cmds, ran, outcome, speed, duties, sleeps,
          iter, batches, almanac

vars == <<pc, config, date, table, now, prayers, p1, p2, diff12, diff21,
          written, passed, jobs, stamp, tableAt,
          clock, route, log, cmds, ran, outcome, speed, duties, sleeps,
          iter, batches, almanac>>

prayerVars == <<config, date, table, now, prayers>>

diffVars == <<p1, p2, diff12, diff21>>

\* the prayer file, the arguments main passes to the selector, the scheduler
mainVars == <<written, passed, jobs>>

\* a date argument with a time of day and the table computed for it
stampVars == <<stamp, tableAt>>

\* the clock, the outcome of 'ip route', the log of the job runs, the OS calls,
\* the number of calls of each job's function, the outcome of the last run
blockVars == <<clock, route, log, cmds, ran, outcome>>

\* the fade time, the duty cycles set and the delays slept
ledVars == <<speed, duties, sleeps>>

\* the calls made in the current iteration of main's loop, the number of
\* batches of jobs registered so far, and the tables computeAllPrayerTimes
\* returns for the days the loop reaches
loopVars == <<iter, batches, almanac>>

(***************************************************************************)
(* Bounds of the model.                                                    *)
(***************************************************************************)
\* dates are 2019-01-01 + 45*k days, k in 0..MaxDateIdx, and 2019-03-20
MaxDateIdx == 8

\* latitudes are -60 + 30*k degrees, k in 0..MaxLatIdx, and Khobar's 26.6
MaxLatIdx == 4

\* the clock values tried within a day are 6*k hours, k in 0..MaxNowIdx, and
\* the day's prayer times
MaxNowIdx == 3

\* the largest hour component of the instants given to computeDiff
MaxHour == 25

(***************************************************************************)
(* math: fixed-point trigonometry                                          *)
(***************************************************************************)
SCALE == 10^4

\* round(SCALE * sin(k degrees)) for k = 0..90, at index k+1
SinTab ==
  << 0, 175, 349, 523, 698, 872, 1045, 1219, 1392, 1564,
     1736, 1908, 2079, 2250, 2419, 2588, 2756, 2924, 3090, 3256,
     3420, 3584, 3746, 3907, 4067, 4226, 4384, 4540, 4695, 4848,
     5000, 5150, 5299, 5446, 5592, 5736, 5878, 6018, 6157, 6293,
     6428, 6561, 6691, 6820, 6947, 7071, 7193, 7314, 7431, 7547,
     7660, 7771, 7880, 7986, 8090, 8192, 8290, 8387, 8480, 8572,
     8660, 8746, 8829, 8910, 8988, 9063, 9135, 9205, 9272, 9336,
     9397, 9455, 9511, 9563, 9613, 9659, 9703, 9744, 9781, 9816,
     9848, 9877, 9903, 9925, 9945, 9962, 9976, 9986, 9994, 9998,
     10000 >>

Abs(x) == IF x < 0 THEN -x ELSE x

\* sine of m millidegrees, 0 <= m <= 90000
SinQ(m) ==
  LET k == m \div 1000
      r == m % 1000
  IN  IF r = 0 THEN SinTab[k + 1]
      ELSE SinTab[k + 1] + ((SinTab[k + 2] - SinTab[k + 1]) * r) \div 1000

Sin(m) ==
  LET n == m % 360000
  IN  IF n <= 90000 THEN SinQ(n)
      ELSE IF n <= 180000 THEN SinQ(180000 - n)
      ELSE IF n <= 270000 THEN -SinQ(n - 180000)
      ELSE -SinQ(360000 - n)

Cos(m) == Sin(m + 90000)

Tan(m) == (Sin(m) * SCALE) \div Cos(m)

\* one step of the bisection for acos: k + s when cos(k+s degrees) > x
AcosStep(x, k, s) ==
  IF k + s <= 179 /\ Cos((k + s) * 1000) > x THEN k + s ELSE k

\* the greatest k in 0..179 with k = 0 or cos(k degrees) > x, by bisection;
\* the cosine decreases, so cos(k) >= x >= cos(k+1)
AcosDegree(x) ==
  AcosStep(x, AcosStep(x, AcosStep(x, AcosStep(x, AcosStep(x, AcosStep(x,
    AcosStep(x, AcosStep(x, 0, 128), 64), 32), 16), 8), 4), 2), 1)

\* acos of x/SCALE interpolated between k and k+1 degrees
AcosAt(x, k) ==
  LET ck == Cos(k * 1000)
      cn == Cos((k + 1) * 1000)
  IN  k * 1000 + ((ck - x) * 1000) \div (ck - cn)

\* acos of x/SCALE in millidegrees, for -SCALE <= x <= SCALE
Acos(x) == AcosAt(x, AcosDegree(x))

Asin(x) == 90000 - Acos(x)

\* sin(k degrees) * d - cos(k degrees) * n, whose zero in k is atan(n/d)
AtanGap(n, d, k) == SinTab[k + 1] * d - SinTab[91 - k] * n

\* one step of the bisection for atan: k + s when the gap there is <= 0
AtanStep(n, d, k, s) ==
  IF k + s <= 89 /\ AtanGap(n, d, k + s) <= 0 THEN k + s ELSE k

\* the greatest k in 0..89 with AtanGap <= 0, by bisection; the gap increases
\* with k
AtanDegree(n, d) ==
  AtanStep(n, d, AtanStep(n, d, AtanStep(n, d, AtanStep(n, d, AtanStep(n, d,
    AtanStep(n, d, AtanStep(n, d, 0, 64), 32), 16), 8), 4), 2), 1)

\* atan of n/d interpolated between k and k+1 degrees
AtanAt(n, d, k) ==
  LET fk  == AtanGap(n, d, k)
      fn  == AtanGap(n, d, k + 1)
      den == (fn - fk) \div 1000
  IN  IF fn <= 0 THEN 90000
      ELSE k * 1000 + (IF den > 0 THEN (-fk) \div den ELSE 0)

\* atan of n/d in millidegrees for 0 <= n, 0 < d, both small enough for the
\* products of AtanGap
AtanSmall(n, d) == AtanAt(n, d, AtanDegree(n, d))

\* atan of n/d in millidegrees for n >= 0, d >= 0, not both zero; large
\* operands are scaled down together so that the products stay in range
AtanMag(n, d) ==
  IF d = 0 THEN 90000
  ELSE LET s == (IF n > d THEN n ELSE d) \div 100000 + 1
       IN  AtanSmall(n \div s, d \div s)

\* atan of n/d in millidegrees, in -90000..90000
Atan(n, d) ==
  IF (n >= 0) = (d >= 0) THEN AtanMag(Abs(n), Abs(d))
  ELSE -AtanMag(Abs(n), Abs(d))

Atan2(y, x) ==
  IF x > 0 THEN Atan(y, x)
  ELSE IF x < 0 THEN (IF y >= 0 THEN 180000 + Atan(y, x) ELSE Atan(y, x) - 180000)
  ELSE IF y > 0 THEN 90000
  ELSE IF y < 0 THEN -90000
  ELSE 0

(***************************************************************************)
(* algorithms.py: formulae used to compute prayer times                    *)
(* (prayer.py 270-354 holds verbatim copies named _julianEquation,         *)
(* _sunEquation, _horizonEquation and _asrEquation)                        *)
(***************************************************************************)
\* outcome of a call: a returned value or a raised exception
Return(v) == [ok |-> TRUE, err |-> "", val |-> v]

Raise(e) == [ok |-> FALSE, err |-> e, val |-> 0]

\* julian.to_jd: the Julian date as whole days plus seconds of the next day
julianEquation(d) ==
  [days |-> 2451544 + (d + 43200) \div 86400, secs |-> (d + 43200) % 86400]

\* (declination in millidegrees, equation of time in seconds)
sunEquation(d) ==
  LET jd  == julianEquation(d)
      D   == jd.days - 2451545
      R   == jd.secs
      g   == (357529 + 985 * D + (60028 * D) \div 100000 + (R * 9856) \div 864000) % 360000
      q   == (280459 + 985 * D + (64736 * D) \div 100000 + (R * 9856) \div 864000) % 360000
      L   == q + (1915 * Sin(g)) \div SCALE + (20 * Sin(2 * g)) \div SCALE
      e   == (23439 - (36 * D) \div 100000) % 360000
      RA  == Atan2((Cos(e) * Sin(L)) \div SCALE, Cos(L))
      declination    == Asin((Sin(e) * Sin(L)) \div SCALE)
      equationOfTime == (q * 6) \div 25 - ((RA % 360000) * 6) \div 25
  IN  <<declination, equationOfTime>>

\* the quotient num/den of two doubles, scaled.  cos(LAT)*cos(DEC) is a tiny
\* positive double at the poles, where its fixed-point value is 0: the
\* quotient is then far outside [-1, 1] on the side of num
Quot(num, den) ==
  IF den # 0 THEN (num * SCALE) \div den
  ELSE IF num > 0 THEN 2 * SCALE
  ELSE IF num < 0 THEN -2 * SCALE
  ELSE 0

\* the argument of acos in horizonEquation
horizonArg(angle, latitude, declination) ==
  LET a   == angle
      LAT == latitude
      DEC == declination
  IN  Quot(-Sin(a) - (Sin(LAT) * Sin(DEC)) \div SCALE, (Cos(LAT) * Cos(DEC)) \div SCALE)

\* SHA + tan(LAT - DEC), the argument of acot in asrEquation; tan(90 degrees)
\* is a huge finite double
acotArg(shadowLength, latitude, declination) ==
  IF Cos(latitude - declination) = 0 THEN SCALE * SCALE
  ELSE shadowLength * SCALE + Tan(latitude - declination)

\* the argument of acos in asrEquation, for acotArg # 0
asrArg(shadowLength, latitude, declination) ==
  LET LAT  == latitude
      DEC  == declination
      x    == acotArg(shadowLength, latitude, declination)
      acot == IF x = SCALE * SCALE THEN 0 ELSE Atan(SCALE, x)
  IN  Quot(Sin(acot) - (Sin(LAT) * Sin(DEC)) \div SCALE, (Cos(LAT) * Cos(DEC)) \div SCALE)

\* AcosHours with the argument clamped into [-1, 1] instead of an error
AcosHours_clamped(x) ==
  Return((Acos(IF x > SCALE THEN SCALE ELSE IF x < -SCALE THEN -SCALE ELSE x) * 6) \div 25)

\* timedelta(hours = 1/15 * degrees(acos(x))) in seconds; math.acos raises
\* ValueError outside [-1, 1]
AcosHours(x) ==
  IF Abs(x) > SCALE THEN Raise("ValueError")
  ELSE Return((Acos(x) * 6) \div 25)

\* the timedelta from thuhr until the sun is `angle` below the horizon
horizonEquation(angle, latitude, declination) ==
  AcosHours(horizonArg(angle, latitude, declination))

\* the timedelta from thuhr until a shadow is shadowLength times longer
asrEquation(shadowLength, latitude, declination) ==
  IF acotArg(shadowLength, latitude, declination) = 0 THEN Raise("ZeroDivisionError")
  ELSE AcosHours(asrArg(shadowLength, latitude, declination))

(***************************************************************************)
(* prayer.py: the five prayer times of one day                             *)
(***************************************************************************)
\* PRAYER_NAMES with the last two names exchanged
PRAYER_NAMES_swapped == <<"fajr", "thuhr", "asr", "isha", "maghrib">>

PRAYER_NAMES == <<"fajr", "thuhr", "asr", "maghrib", "isha">>

\* (fajr angle, isha rule); umm_alqura's isha entry is the "90min" sentinel
fajrIshaAngle ==
  ("muslim_league" :> <<18000, <<"angle", 17000>> >>) @@
  ("isna"          :> <<15000, <<"angle", 15000>> >>) @@
  ("egypt"         :> <<19500, <<"angle", 17500>> >>) @@
  ("umm_alqura"    :> <<18500, <<"90min", 0>> >>)

asrShadow == ("standard" :> 1) @@ ("hanafi" :> 2)

computeThuhr(d, longitude, timeZone) ==
  LET equationOfTime == sunEquation(d)[2]
  IN  Return(d + (12 * 3600 + timeZone * 3600
                    - ((longitude * 6) \div 25 + equationOfTime)))

\* the outcome T added to thuhr where it is to be subtracted
Before_added(thuhr, T) == IF T.ok THEN Return(thuhr + T.val) ELSE T

\* thuhr - T for the outcome T of an equation; its exception propagates
Before(thuhr, T) == IF T.ok THEN Return(thuhr - T.val) ELSE T

\* thuhr + T for the outcome T of an equation; its exception propagates
After(thuhr, T) == IF T.ok THEN Return(thuhr + T.val) ELSE T

computeFajr(d, angle, latitude, thuhr) ==
  Before(thuhr, horizonEquation(angle, latitude, sunEquation(d)[1]))

computeAsr(d, shadowLength, latitude, thuhr) ==
  After(thuhr, asrEquation(shadowLength, latitude, sunEquation(d)[1]))

MaghribAngle == 833

computeMaghrib(d, latitude, thuhr) ==
  After(thuhr, horizonEquation(MaghribAngle, latitude, sunEquation(d)[1]))

computeIsha(d, angle, latitude, thuhr) ==
  After(thuhr, horizonEquation(angle, latitude, sunEquation(d)[1]))

\* computeIshaUmmAlQura adding 90 seconds instead of 90 minutes
computeIshaUmmAlQura_seconds(maghrib) == Return(maghrib + 90)

computeIshaUmmAlQura(maghrib) == Return(maghrib + 90 * 60)

\* a failed call: the exception, the prayers computed before it, no table
Failed(e, done) == [status |-> e, computed |-> done, table |-> <<>>]

\* the OrderedDict zip(PRAYER_NAMES, times) as a sequence of (name, time)
OrderedDict(names, times) ==
  [i \in 1..Len(names) |-> [name |-> names[i], time |-> times[i]]]

\* dict.get(key, default): a missing key falls back to an entry of the table
GetItem_default(dict, key) ==
  IF key \in DOMAIN dict THEN Return(dict[key])
  ELSE Return(dict[CHOOSE k \in DOMAIN dict : TRUE])

\* dict[key]: a missing key raises KeyError
GetItem(dict, key) ==
  IF key \in DOMAIN dict THEN Return(dict[key]) ELSE Raise("KeyError")

\* the return statement of computeAllPrayerTimes, reached when none of the
\* five calls raised; the calls are made in the order thuhr, fajr, asr,
\* maghrib, isha
ReturnTable(thuhr, fajr, asr, maghrib, isha) ==
  IF ~fajr.ok THEN Failed(fajr.err, <<"thuhr">>)
  ELSE IF ~asr.ok THEN Failed(asr.err, <<"thuhr", "fajr">>)
  ELSE IF ~maghrib.ok THEN Failed(maghrib.err, <<"thuhr", "fajr", "asr">>)
  ELSE IF ~isha.ok THEN Failed(isha.err, <<"thuhr", "fajr", "asr", "maghrib">>)
  ELSE [status   |-> "ok",
        computed |-> <<"thuhr", "fajr", "asr", "maghrib", "isha">>,
        table    |-> OrderedDict(PRAYER_NAMES,
                       <<fajr.val, thuhr.val, asr.val, maghrib.val, isha.val>>)]

\* the calls that follow maghrib = computeMaghrib(...)
computeFromMaghrib(d, LAT, F_ANG, I_ANG, shadowLength, thuhr, maghrib) ==
  ReturnTable(thuhr,
              computeFajr(d, F_ANG, LAT, thuhr.val),
              computeAsr(d, shadowLength, LAT, thuhr.val),
              maghrib,
              IF I_ANG[1] = "90min" THEN computeIshaUmmAlQura(maghrib.val)
              ELSE computeIsha(d, I_ANG[2], LAT, thuhr.val))

\* maghrib computed with the fajr angle of the convention
computeFromThuhr_conventionMaghrib(d, LAT, F_ANG, I_ANG, shadowLength, thuhr) ==
  computeFromMaghrib(d, LAT, F_ANG, I_ANG, shadowLength, thuhr,
                     computeIsha(d, F_ANG, LAT, thuhr.val))

\* the calls that follow thuhr = computeThuhr(...)
computeFromThuhr(d, LAT, F_ANG, I_ANG, shadowLength, thuhr) ==
  computeFromMaghrib(d, LAT, F_ANG, I_ANG, shadowLength, thuhr,
                     computeMaghrib(d, LAT, thuhr.val))

computeAllPrayerTimes(d, coordinates, timezone, fajrIshaConvention, asrConvention) ==
  LET TZ     == timezone
      LON    == coordinates[1]
      LAT    == coordinates[2]
      angles == GetItem(fajrIshaAngle, fajrIshaConvention)
      F_ANG  == angles.val[1]
      I_ANG  == angles.val[2]
      shadowLength == GetItem(asrShadow, asrConvention)
  IN  IF ~angles.ok THEN Failed(angles.err, <<>>)
      ELSE IF ~shadowLength.ok THEN Failed(shadowLength.err, <<>>)
      ELSE computeFromThuhr(d, LAT, F_ANG, I_ANG, shadowLength.val,
                            computeThuhr(d, LON, TZ))

(***************************************************************************)
(* The selector of the next five prayers (prayer.nextFivePrayers, imported *)
(* by main.py line 16 and called at lines 62-65; its body is in no source  *)
(* file, so it follows section 4.4 of the specification).                  *)
(***************************************************************************)
DAY == 86400

\* midnight of the calendar date of the datetime t
Midnight(t) == t - (t % DAY)

\* the number of entries of a table that are later than t
Remaining(tbl, t) == Cardinality({i \in 1..Len(tbl) : tbl[i].time > t})

\* the selection taking tomorrow's last entries instead of its first
FiveAfter_tomorrowsLast(todayTable, tomorrowTable, n) ==
  LET remainingToday == Remaining(todayTable.table, n)
  IN  IF todayTable.status # "ok" THEN Failed(todayTable.status, <<>>)
      ELSE IF tomorrowTable.status # "ok" THEN Failed(tomorrowTable.status, <<>>)
      ELSE [status   |-> "ok",
            computed |-> <<>>,
            table    |-> SubSeq(todayTable.table, 5 - remainingToday + 1, 5)
                         \o SubSeq(tomorrowTable.table, remainingToday + 1, 5)]

\* the entries of today's table later than n, then tomorrow's first entries,
\* five in all
FiveAfter(todayTable, tomorrowTable, n) ==
  LET remainingToday == Remaining(todayTable.table, n)
  IN  IF todayTable.status # "ok" THEN Failed(todayTable.status, <<>>)
      ELSE IF tomorrowTable.status # "ok" THEN Failed(tomorrowTable.status, <<>>)
      ELSE [status   |-> "ok",
            computed |-> <<>>,
            table    |-> SubSeq(todayTable.table, 5 - remainingToday + 1, 5)
                         \o SubSeq(tomorrowTable.table, 1, 5 - remainingToday)]

nextFivePrayers(coordinates, timezone, fajrIshaConvention, asrConvention, n) ==
  FiveAfter(computeAllPrayerTimes(Midnight(n), coordinates, timezone,
                                  fajrIshaConvention, asrConvention),
            computeAllPrayerTimes(Midnight(n) + DAY, coordinates, timezone,
                                  fajrIshaConvention, asrConvention),
            n)

(***************************************************************************)
(* algorithms.py: the time-difference utility.  A datetime with its        *)
(* microseconds is [sec, usec]; a timedelta is normalised the same way     *)
(* (0 <= usec < 1000000, sec possibly negative).                           *)
(***************************************************************************)
\* Later comparing the whole seconds only
Later_coarse(a, b) == a.sec > b.sec

Later(a, b) == a.sec > b.sec \/ (a.sec = b.sec /\ a.usec > b.usec)

\* datetime.__sub__: a - b as a normalised timedelta
Minus(a, b) ==
  IF a.usec >= b.usec THEN [sec |-> a.sec - b.sec, usec |-> a.usec - b.usec]
  ELSE [sec |-> a.sec - b.sec - 1, usec |-> a.usec - b.usec + 1000000]

\* divmod of the float sec + usec/10^6 by the integer n: (quotient, remainder)
DivMod(x, n) == <<x.sec \div n, [sec |-> x.sec % n, usec |-> x.usec]>>

\* int() of a float: truncation towards zero
Trunc(x) == IF x.sec < 0 /\ x.usec > 0 THEN x.sec + 1 ELSE x.sec

\* computeDiff without the exchange of its arguments: always b - a
computeDiff_signed(a, b) ==
  LET d   == Minus(b, a)
      hr  == DivMod(d, 3600)
      ms  == DivMod(hr[2], 60)
  IN  <<hr[1], ms[1], Trunc(ms[2])>>

computeDiff(a, b) ==
  LET d   == IF Later(b, a) THEN Minus(b, a) ELSE Minus(a, b)
      hr  == DivMod(d, 3600)
      ms  == DivMod(hr[2], 60)
      hours   == hr[1]
      minutes == ms[1]
      seconds == Trunc(ms[2])
  IN  <<hours, minutes, seconds>>

(***************************************************************************)
(* prayer.py, main.py: the serializer and the registration of block jobs.  *)
(* A "HH:MM" string is the pair (hour, minute); the prayer file is the     *)
(* sequence of its (key, value) members in the order they are written.     *)
(***************************************************************************)
\* t.strftime("%H:%M") rounding to the nearest minute
strftime_rounded(t) ==
  <<(((t % DAY) + 30) \div 3600) % 24, ((((t % DAY) + 30) % 3600) \div 60)>>

\* t.strftime("%H:%M"): the hour and the minute of the time of day of t; the
\* date and the seconds are dropped
strftime(t) == <<(t % DAY) \div 3600, ((t % DAY) % 3600) \div 60>>

\* the JSON object writePrayerTimes dumps for the ordered mapping ps
writePrayerTimes(ps) ==
  [i \in 1..Len(ps) |-> [key |-> ps[i].name, value |-> strftime(ps[i].time)]]

\* CONFIG["block"]: the minutes of blocking configured for each prayer
Block ==
  ("fajr" :> 10) @@ ("thuhr" :> 15) @@ ("asr" :> 20) @@
  ("maghrib" :> 25) @@ ("isha" :> 30)

\* schedule's Job.at("HH:MM"): the time of day in seconds, its seconds being 0
at_time(hm) == hm[1] * 3600 + hm[2] * 60

\* schedule's Job._schedule_next_run for a daily job that has not run yet,
\* at clock value c: the job's time on the day of c when that time is still
\* to come, on the next day otherwise
firstRun(c, hm) ==
  IF at_time(hm) > c % DAY THEN Midnight(c) + at_time(hm)
  ELSE Midnight(c) + DAY + at_time(hm)

\* schedule.every().day.at(hm).do(func, arg) at clock value c; id stands for
\* the identity of the Job object
Job(id, c, hm, func, arg) ==
  [id |-> id, at |-> hm, func |-> func, arg |-> arg, next_run |-> firstRun(c, hm)]

\* the job registered for one prayer whatever its name: always fajr's duration
scheduleJob_fajrDuration(id, c, entry) ==
  Job(id, c, strftime(entry.time), "blockInternet", Block["fajr"])

\* main.py 76-78: the job registered for one entry of the prayer set
scheduleJob(id, c, entry) ==
  Job(id, c, strftime(entry.time), "blockInternet", Block[entry.name])

\* main.py 75-78: one job per entry of ps appended to schedule.jobs, in the
\* order of ps; n0 jobs were created before
scheduleAll(js, n0, c, ps) ==
  js \o [i \in 1..Len(ps) |-> scheduleJob(n0 + i, c, ps[i])]

\* no job has been created
NoRuns == <<>>

\* a scheduler with a next run only while two or more jobs are registered
hasNextRun_moreThanOne(js) == Len(js) > 1

\* main.py 49: schedule.default_scheduler.next_run is None while no job is
\* registered, and the earliest next_run of the registered jobs otherwise
hasNextRun(js) == js # <<>>

schedulerNextRun(js) ==
  CHOOSE t \in {js[i].next_run : i \in 1..Len(js)} :
    \A i \in 1..Len(js) : t <= js[i].next_run

\* main.py 50-53: blinkSpeed, the hours until the next run taken as seconds
\* and at least half a second; in milliseconds, c and nr in seconds
blinkSpeed(c, nr) ==
  IF ((nr - c) * 1000) \div 3600 < 500 THEN 500 ELSE ((nr - c) * 1000) \div 3600

\* the longest time the model lets pass between two calls of run_pending:
\* six hours, in seconds
WaitStep == 21600

\* a clock that stands still
afterBlink_frozen(c, nr) == c

\* the clock at the call of run_pending that follows the blink begun at c.
\* A blink lasts blinkSpeed seconds, and the iterations in which no job is
\* due change nothing but the clock; the model takes them together: the
\* clock reaches the next run nr when it is within WaitStep, and moves on by
\* WaitStep otherwise.  With a job already due it moves on by a second.
afterBlink(c, nr) ==
  IF nr <= c THEN c + 1
  ELSE IF nr - c <= WaitStep THEN nr
  ELSE c + WaitStep

\* the calls of one iteration of main's loop that takes the else branch
\* (main.py 56-83), the selector having ended with status
computeCalls(status) ==
  IF status = "ok"
  THEN <<"no next_run", "nextFivePrayers", "writePrayerTimes",
         "do", "do", "do", "do", "do">>
  ELSE <<"no next_run", "nextFivePrayers", "logging.exception">>

\* main.py 49-54: the calls of an iteration up to the blink
blinkCalls == <<"next_run", "blinkLED">>

\* an iteration calling run_pending a second time
runPendingCalls_twice(calls, raised) ==
  IF raised THEN calls \o <<"run_pending", "logging.exception">>
  ELSE calls \o <<"run_pending", "run_pending">>

\* main.py 55 and 86-90: the calls of an iteration after run_pending; its
\* exception reaches the handler around main()
runPendingCalls(calls, raised) ==
  IF raised THEN calls \o <<"run_pending", "logging.exception">>
  ELSE Append(calls, "run_pending")

\* a loop that goes on after an exception
loopAfter_swallowed(raised) == "loop"

\* main.py 48 and 86-90: the loop goes on unless an exception left main()
loopAfter(raised) == IF raised THEN "ended" ELSE "loop"

\* the seconds the block commands of the log entries after the first n took:
\* proc.communicate() (block.py 72) returns when the command has finished
RECURSIVE blockedSeconds(_, _)
blockedSeconds(entries, n) ==
  IF Len(entries) <= n THEN 0
  ELSE blockedSeconds(entries, n + 1)
         + (IF entries[n + 1].completed /\ entries[n + 1].func = "blockInternet"
            THEN entries[n + 1].arg * 60 ELSE 0)

(***************************************************************************)
(* block.py: the one-time block job, and the scheduler that runs it.       *)
(* The output of a command is the sequence of its words and whitespace     *)
(* characters; an OS call is [call, argv].                                 *)
(***************************************************************************)
Whitespace == {" ", "\n"}

IsWord(x) == x \notin Whitespace

\* bytes.split(): the words of the output, whitespace dropped
split(out) == SelectSeq(out, IsWord)

\* subprocess.run(["ip", "route"], stdout=subprocess.PIPE)
IpRoute == [call |-> "run", argv |-> <<"ip", "route">>]

\* the block command with gateway and interface exchanged
blockCommand_swapped(words, duration) ==
  <<"sudo", "aroundtheclock", words[3], words[5], duration * 60>>

\* block.py 68-71: shlex.split of "sudo aroundtheclock INTERFACE GATEWAY
\* seconds", GATEWAY = words[2] and INTERFACE = words[4] counted from 0
blockCommand(words, duration) ==
  <<"sudo", "aroundtheclock", words[5], words[3], duration * 60>>

\* what one call of a job's function did: its return value or its exception,
\* and the OS calls it made
Done(v, calls) == [ok |-> TRUE, err |-> "", val |-> v, calls |-> calls]

Failing(e, calls) == [ok |-> FALSE, err |-> e, val |-> "None", calls |-> calls]

\* the words of 'ip route' indexed (block.py 57-58), then the block command
\* started and waited for (block.py 68-72)
blockWith(words, duration) ==
  IF Len(words) < 5 THEN Failing("IndexError", <<IpRoute>>)
  ELSE Done("None",
            <<IpRoute,
              [call |-> "Popen", argv |-> blockCommand(words, duration)],
              [call |-> "communicate", argv |-> blockCommand(words, duration)]>>)

\* the body of blockInternet (block.py 53-74); r is the outcome of 'ip route'.
\* An OSError of subprocess.run is caught and e("...") is raised, which is a
\* TypeError since e is an exception instance
blockInternet(duration, r) ==
  IF ~r.ok THEN Failing("TypeError", <<IpRoute>>)
  ELSE blockWith(split(r.val), duration)

\* the functions given to do(): blockInternet, and the test's lambda x: 0
callFunc(func, arg, r) ==
  IF func = "blockInternet" THEN blockInternet(arg, r) ELSE Done("0", <<>>)

\* block.py 30-32: the line logged before the function is called
nextJobLine(js) ==
  IF Len(js) >= 2 THEN <<"Next job at", js[2].next_run>>
  ELSE <<"No next job scheduled!">>

\* a wrapper returning what the wrapped function returned
wrapperReturn_passThrough(res) == res.val

\* block.py 33-35: the value the wrapper returns once func has returned
wrapperReturn(res) == "CancelJob"

\* the position of the job id in schedule.jobs
indexOf(js, id) == CHOOSE i \in 1..Len(js) : js[i].id = id

\* list.remove(job)
removeJob(js, id) == SelectSeq(js, LAMBDA j : j.id # id)

\* Job.run after job_func returned: last_run is set and the job is due again
\* a day after c at its time
rescheduled(js, id, c) ==
  [i \in 1..Len(js) |->
     IF js[i].id = id
     THEN [js[i] EXCEPT !.next_run = Midnight(c) + DAY + at_time(js[i].at)]
     ELSE js[i]]

\* the state of scheduler, log and OS after the job has run with result res
\* under the wrapper: schedule's _run_job cancels a job that returned
\* CancelJob; an exception leaves the job registered
afterRun(st, job, res, c) ==
  [jobs    |-> IF ~res.ok THEN st.jobs
               ELSE IF wrapperReturn(res) = "CancelJob" THEN removeJob(st.jobs, job.id)
               ELSE rescheduled(st.jobs, job.id, c),
   log     |-> Append(st.log,
                      [job |-> job.id, func |-> job.func, arg |-> job.arg,
                       registered |-> st.jobs, line |-> nextJobLine(st.jobs),
                       calls |-> res.calls, completed |-> res.ok,
                       ret |-> IF res.ok THEN wrapperReturn(res) ELSE res.err]),
   cmds    |-> st.cmds \o res.calls,
   ran     |-> [st.ran EXCEPT ![job.id] = @ + 1],
   outcome |-> IF res.ok THEN wrapperReturn(res) ELSE res.err,
   raised  |-> ~res.ok]

\* schedule's _run_job(job)
runJob(st, id, r, c) ==
  afterRun(st, st.jobs[indexOf(st.jobs, id)],
           callFunc(st.jobs[indexOf(st.jobs, id)].func,
                    st.jobs[indexOf(st.jobs, id)].arg, r), c)

\* the jobs in ids run one after the other until one raises
RECURSIVE runJobs(_, _, _, _)
runJobs(st, ids, r, c) ==
  IF ids = <<>> \/ st.raised THEN st
  ELSE runJobs(runJob(st, Head(ids), r, c), Tail(ids), r, c)

\* sorted(jobs): by next_run, the order of the list among equals
RECURSIVE sortedIds(_, _)
sortedIds(js, S) ==
  IF S = {} THEN <<>>
  ELSE LET i == CHOOSE i \in S : \A j \in S :
                  \/ js[i].next_run < js[j].next_run
                  \/ js[i].next_run = js[j].next_run /\ i <= j
       IN  <<js[i].id>> \o sortedIds(js, S \ {i})

\* run_pending at clock value c: the jobs that are due, sorted
pendingIds(js, c) == sortedIds(js, {i \in 1..Len(js) : c >= js[i].next_run})

\* run_all: every job, in the order of the list
allIds(js) == [i \in 1..Len(js) |-> js[i].id]

(***************************************************************************)
(* prayer.py: its own one-time block job and its scheduling loop.          *)
(***************************************************************************)
\* prayer.py 101-102: the argv of the block command, GATEWAY = words[2] and
\* INTERFACE = words[4] counted from 0
prayerBlockCommand(words, duration) ==
  <<"sudo", "timeout", duration * 60, "arpspoof", "-i", words[5], words[3]>>

\* the body of prayer.py's blockInternet (prayer.py 92-104); r is the outcome
\* of 'ip route'.  An OSError of the first subprocess.run is not caught; the
\* block command returns or its TimeoutExpired is caught
prayerBlockInternet(duration, r) ==
  IF ~r.ok THEN Failing(r.err, <<IpRoute>>)
  ELSE IF Len(split(r.val)) < 5 THEN Failing("IndexError", <<IpRoute>>)
  ELSE Done("None",
            <<IpRoute,
              [call |-> "run",
               argv |-> prayerBlockCommand(split(r.val), duration)]>>)

\* prayer.py 63-68: schedule.cancel_job(schedule.jobs[0]) inside try; the
\* IndexError of an empty list is swallowed, and so is whatever the logging
\* call after it raises
cancelFirst(js) == IF js = <<>> THEN js ELSE Tail(js)

\* schedule.jobs after job has run with result res under prayer.py's wrapper
\* (prayer.py 60-70): an exception of func leaves the wrapper at once;
\* otherwise jobs[0] is cancelled, the wrapper returns CancelJob and
\* schedule's _run_job cancels the job that ran, if it is still registered
prayerJobsAfter(js, job, res) ==
  IF ~res.ok THEN js ELSE removeJob(cancelFirst(js), job.id)

\* the state of scheduler, log and OS after job has run under prayer.py's
\* wrapper
prayerAfterRun(st, job, res) ==
  [jobs    |-> prayerJobsAfter(st.jobs, job, res),
   log     |-> Append(st.log,
                      [job |-> job.id, func |-> job.func, arg |-> job.arg,
                       registered |-> st.jobs,
                       left |-> prayerJobsAfter(st.jobs, job, res),
                       calls |-> res.calls, completed |-> res.ok,
                       ret |-> IF res.ok THEN "CancelJob" ELSE res.err]),
   cmds    |-> st.cmds \o res.calls,
   ran     |-> [st.ran EXCEPT ![job.id] = @ + 1],
   outcome |-> IF res.ok THEN "CancelJob" ELSE res.err,
   raised  |-> ~res.ok]

\* run_pending's sorted list of the jobs that are due at clock value c: the
\* Job objects themselves, taken before any of them runs
pendingJobs(js, c) ==
  [k \in 1..Len(pendingIds(js, c)) |-> js[indexOf(js, pendingIds(js, c)[k])]]

\* the jobs of the list run one after the other until one raises; a job
\* that an earlier wrapper cancelled is still run
RECURSIVE prayerRunJobs(_, _, _)
prayerRunJobs(st, due, r) ==
  IF due = <<>> \/ st.raised THEN st
  ELSE prayerRunJobs(prayerAfterRun(st, Head(due),
                                    prayerBlockInternet(Head(due).arg, r)),
                     Tail(due), r)

\* the calls of one iteration of prayer.py's loop that takes the else branch
\* (prayer.py 479-509), computeAllPrayerTimes having ended with status
todayCalls(status) ==
  IF status = "ok"
  THEN <<"no next_run", "computeAllPrayerTimes", "writePrayerTimes",
         "do", "do", "do", "do", "do">>
  ELSE <<"no next_run", "computeAllPrayerTimes", "logging.exception">>

\* prayer.py 476-478: the calls of an iteration that finds a job registered
waitCalls == <<"next_run", "run_pending", "sleep">>

(***************************************************************************)
(* led.py: one blink of the LED.  The speed is in milliseconds and a delay *)
(* in microseconds, so that speed / 200 is a whole number of microseconds. *)
(***************************************************************************)
INTERVAL == 1

MIN_PERCENT == 0

MAX_PERCENT == 100

\* led.py 38
STEPS == (MAX_PERCENT - MIN_PERCENT) \div INTERVAL

\* a delay of the speed divided by the steps of one ramp only
DUTY_DELAY_oneRamp(s) == (s * 1000) \div STEPS

\* led.py 39: speed / (2 * STEPS)
DUTY_DELAY(s) == (s * 1000) \div (2 * STEPS)

\* Python's range(a, b, step) as the sequence of its values
range(a, b, step) ==
  IF step > 0
  THEN [i \in 1..((b - a + step - 1) \div step) |-> a + (i - 1) * step]
  ELSE [i \in 1..((a - b - step - 1) \div (-step)) |-> a + (i - 1) * step]

\* led.py 41: the duty cycles of the first loop
rising == range(MIN_PERCENT, MAX_PERCENT, INTERVAL)

\* led.py 45: the duty cycles of the second loop
falling == range(MAX_PERCENT, MIN_PERCENT, -INTERVAL)

(***************************************************************************)
(* Inputs                                                                  *)
(***************************************************************************)
\* midnights of 2019-01-01 (day 6940 of the model's epoch) + 45*k days, and of
\* 2019-03-20 (day 7018), the eve of the mean sun's passage through 360 degrees
Dates == {(6940 + 45 * k) * DAY : k \in 0..MaxDateIdx} \cup {7018 * DAY}

\* Khobar (test_prayer.py 59) and a grid from 60 S northwards
Latitudes == {26600} \cup {30000 * k - 60000 : k \in 0..MaxLatIdx}

\* (longitude, timezone): Khobar and Greenwich
Places == {<<50000, 3>>, <<0, 0>>}

\* the keys of the convention tables and one key that is in neither
FajrIshaKeys == DOMAIN fajrIshaAngle \cup {"unknown"}

AsrKeys == DOMAIN asrShadow \cup {"unknown"}

Configs ==
  {[longitude |-> pl[1], latitude |-> lat, timezone |-> pl[2],
    fajr_isha |-> fi, asr |-> ac] :
     pl \in Places, lat \in Latitudes, fi \in FajrIshaKeys, ac \in AsrKeys}

\* Paris in summer time, on the day its isha is last before midnight
Paris ==
  [longitude |-> 2350, latitude |-> 48850, timezone |-> 2,
   fajr_isha |-> "muslim_league", asr |-> "standard"]

\* midnight of 2019-05-21
ParisDate == 7080 * DAY

NotCalled == [status |-> "not called", computed |-> <<>>, table |-> <<>>]

TableOf(cfg, d) ==
  computeAllPrayerTimes(d, <<cfg.longitude, cfg.latitude>>, cfg.timezone,
                        cfg.fajr_isha, cfg.asr)

\* clock values of the day d: every sixth hour, and each prayer time of the
\* day's table t that falls on the day, with the second before it
Nows(t, d) ==
  {x \in {d + 6 * 3600 * k : k \in 0..MaxNowIdx}
           \cup {t[i].time + e : i \in 1..Len(t), e \in {-1, 0}} :
     x >= d /\ x < d + DAY}

Instants ==
  {[sec |-> 3600 * h + 60 * m + s, usec |-> u] :
     h \in {0, 1, MaxHour}, m \in {0, 59}, s \in {0, 59}, u \in {0, 999999}}

NoDiff == <<-1, -1, -1>>

\* the parts of the state a specification does not use
MainIdle == written = <<>> /\ passed = <<>> /\ jobs = <<>>

StampIdle == stamp = 0 /\ tableAt = NotCalled

BlockIdle ==
  /\ clock = 0
  /\ route = Return(<<>>)
  /\ log = <<>>
  /\ cmds = <<>>
  /\ ran = NoRuns
  /\ outcome = "none"

LedIdle == speed = 0 /\ duties = <<>> /\ sleeps = <<>>

\* no table looked up yet
NoAlmanac == [start |-> 0, tables |-> <<>>]

LoopIdle == iter = <<>> /\ batches = 0 /\ almanac = NoAlmanac

(***************************************************************************)
(* Specification of the prayer-time functions: a configuration and a day   *)
(* are drawn, then the functions are called on them.                       *)
(***************************************************************************)
InitPrayer ==
  /\ pc = "start"
  /\ \/ config \in Configs /\ date \in Dates
     \/ config = Paris /\ date = ParisDate
  /\ table = NotCalled
  /\ now = date
  /\ prayers = NotCalled
  /\ p1 = [sec |-> 0, usec |-> 0]
  /\ p2 = [sec |-> 0, usec |-> 0]
  /\ diff12 = NoDiff
  /\ diff21 = NoDiff
  /\ MainIdle
  /\ StampIdle
  /\ BlockIdle
  /\ LedIdle
  /\ LoopIdle

\* prayer.py 485-493: the table of the day, written to the prayer file
ComputeAllPrayerTimes ==
  /\ pc = "start"
  /\ pc' = "table"
  /\ table' = TableOf(config, date)
  /\ written' = IF table'.status = "ok" THEN writePrayerTimes(table'.table)
                ELSE written
  /\ UNCHANGED <<config, date, now, prayers, diffVars, passed, jobs, stampVars, blockVars, ledVars, loopVars>>

\* main.py 56-78, the branch taken while no job is registered: the call of
\* the selector with main's four arguments, the selector working from the
\* clock value n; then the prayer file and one job per prayer.  An exception
\* of the selector leaves the file and the scheduler as they were.
NextFivePrayers ==
  /\ pc = "table"
  /\ jobs = <<>>
  /\ pc' = "next five"
  /\ passed' = <<<<config.longitude, config.latitude>>, config.timezone,
                 config.fajr_isha, config.asr>>
  /\ \E n \in Nows(table.table, date) :
       /\ now' = n
       /\ clock' = n
       /\ prayers' = nextFivePrayers(passed'[1], passed'[2], passed'[3],
                                     passed'[4], n)
  /\ written' = IF prayers'.status = "ok" THEN writePrayerTimes(prayers'.table)
                ELSE written
  /\ jobs' = IF prayers'.status = "ok"
             THEN scheduleAll(jobs, Len(ran), clock', prayers'.table)
             ELSE jobs
  /\ ran' = IF prayers'.status = "ok" THEN ran \o [i \in 1..5 |-> 0] ELSE ran
  /\ iter' = computeCalls(prayers'.status)
  /\ batches' = IF prayers'.status = "ok" THEN batches + 1 ELSE batches
  /\ UNCHANGED <<config, date, table, diffVars, stampVars, route, log, cmds, outcome, ledVars, almanac>>

NextPrayer == ComputeAllPrayerTimes \/ NextFivePrayers

SpecPrayer == InitPrayer /\ [][NextPrayer]_vars

(***************************************************************************)
(* Specification of computeDiff: two instants are drawn and compared in    *)
(* both orders.                                                            *)
(***************************************************************************)
InitDiff ==
  /\ pc = "start"
  /\ p1 \in Instants
  /\ p2 \in Instants
  /\ diff12 = NoDiff
  /\ diff21 = NoDiff
  /\ config = CHOOSE c \in Configs : TRUE
  /\ date = 0
  /\ table = NotCalled
  /\ now = 0
  /\ prayers = NotCalled
  /\ MainIdle
  /\ StampIdle
  /\ BlockIdle
  /\ LedIdle
  /\ LoopIdle

ComputeDiff ==
  /\ pc = "start"
  /\ pc' = "diff"
  /\ diff12' = computeDiff(p1, p2)
  /\ diff21' = computeDiff(p2, p1)
  /\ UNCHANGED <<p1, p2, prayerVars, mainVars, stampVars, blockVars, ledVars, loopVars>>

NextDiff == ComputeDiff

SpecDiff == InitDiff /\ [][NextDiff]_vars

(***************************************************************************)
(* Specification of the date argument: computeAllPrayerTimes is called     *)
(* with the midnight of a day and with a later instant of the same day.    *)
(***************************************************************************)
\* the times of day given to the date argument, in seconds after midnight
TimesOfDay == {1, 12 * 3600, DAY - 1}

\* the configurations at Khobar's longitude
StampConfigs == {c \in Configs : c.longitude = 50000}

InitStamp ==
  /\ pc = "start"
  /\ config \in StampConfigs
  /\ date \in Dates
  /\ \E t \in TimesOfDay : stamp = date + t
  /\ table = NotCalled
  /\ tableAt = NotCalled
  /\ now = date
  /\ prayers = NotCalled
  /\ p1 = [sec |-> 0, usec |-> 0]
  /\ p2 = [sec |-> 0, usec |-> 0]
  /\ diff12 = NoDiff
  /\ diff21 = NoDiff
  /\ MainIdle
  /\ BlockIdle
  /\ LedIdle
  /\ LoopIdle

\* prayer.py 138-178 called twice: with the midnight and with the instant
ComputeAtStamp ==
  /\ pc = "start"
  /\ pc' = "tables"
  /\ table' = TableOf(config, date)
  /\ tableAt' = TableOf(config, stamp)
  /\ UNCHANGED <<config, date, now, prayers, diffVars, mainVars, stamp, blockVars, ledVars, loopVars>>

NextStamp == ComputeAtStamp

SpecStamp == InitStamp /\ [][NextStamp]_vars

(***************************************************************************)
(* Specification of the block jobs: jobs are registered with the           *)
(* scheduler, the clock advances, and the scheduler runs the jobs that are *)
(* due (run_pending, main.py 55) or all of them (run_all).  An exception   *)
(* of a job ends the program (main.py 86-90).                              *)
(***************************************************************************)
\* the most jobs registered in one behaviour
MaxJobs == 3

\* the last day the clock reaches, counted from the first
MaxBlockDay == 1

\* 2019-01-01 00:00
BlockDay0 == 6940 * DAY

\* the times of day the clock reaches
TickTimes == {9 * 3600, 10 * 3600, 23 * 3600 + 1800}

ClockGrid == {BlockDay0 + d * DAY + t : d \in 0..MaxBlockDay, t \in TickTimes}

\* the times given to at(): "10:00" and "23:30"
JobTimes == {<<10, 0>>, <<23, 30>>}

\* the functions given to do() with their argument
JobFuncs == {<<"blockInternet", 10>>, <<"lambda", 0>>}

\* the output of 'ip route' in test_block.py 22-26, its first line and the
\* head of its second
TestRoute ==
  <<"\n", " ", " ", "default", " ", "via", " ", "10.0.2.2", " ", "dev", " ",
    "enp0s3", " ", "proto", " ", "dhcp", " ", "metric", " ", "100", " ", "\n",
    " ", " ", "10.0.2.0/24", " ", "dev", " ", "enp0s3", "\n">>

\* a host on another network
HomeRoute ==
  <<"default", " ", "via", " ", "192.168.1.1", " ", "dev", " ", "wlan0", "\n">>

\* a host without a default route
LinkRoute == <<"10.0.2.0/24", " ", "dev", " ", "enp0s3", "\n">>

\* test_block.py 42: no output
EmptyRoute == <<>>

BlankRoute == <<"\n">>

\* the outcomes of subprocess.run(["ip", "route"]): an output, or the
\* OSError of a missing command
RouteResults ==
  {Return(out) : out \in {TestRoute, HomeRoute, LinkRoute, EmptyRoute, BlankRoute}}
    \cup {Raise("FileNotFoundError")}

PrayerIdle ==
  /\ config = CHOOSE c \in Configs : TRUE
  /\ date = 0
  /\ table = NotCalled
  /\ now = 0
  /\ prayers = NotCalled

DiffIdle ==
  /\ p1 = [sec |-> 0, usec |-> 0]
  /\ p2 = [sec |-> 0, usec |-> 0]
  /\ diff12 = NoDiff
  /\ diff21 = NoDiff

InitBlock ==
  /\ pc = "main"
  /\ clock = BlockDay0 + 9 * 3600
  /\ route \in RouteResults
  /\ jobs = <<>>
  /\ log = <<>>
  /\ cmds = <<>>
  /\ ran = NoRuns
  /\ outcome = "none"
  /\ written = <<>>
  /\ passed = <<>>
  /\ PrayerIdle
  /\ DiffIdle
  /\ StampIdle
  /\ LedIdle
  /\ LoopIdle

\* schedule.every().day.at(t).do(func, arg)
Register ==
  /\ pc = "main"
  /\ Len(ran) < MaxJobs
  /\ \E hm \in JobTimes, f \in JobFuncs :
       jobs' = Append(jobs, Job(Len(ran) + 1, clock, hm, f[1], f[2]))
  /\ ran' = Append(ran, 0)
  /\ UNCHANGED <<pc, prayerVars, diffVars, written, passed, stampVars,
                 clock, route, log, cmds, outcome, ledVars, loopVars>>

\* time passes
Tick ==
  /\ pc = "main"
  /\ \E c \in ClockGrid :
       /\ c > clock
       /\ \A d \in ClockGrid : d > clock => c <= d
       /\ clock' = c
  /\ UNCHANGED <<pc, prayerVars, diffVars, mainVars, stampVars,
                 route, log, cmds, ran, outcome, ledVars, loopVars>>

\* the scheduler runs the jobs ids in this order
RunJobs(ids) ==
  /\ pc = "main"
  /\ ids # <<>>
  /\ \E st \in {runJobs([jobs |-> jobs, log |-> log, cmds |-> cmds, ran |-> ran,
                          outcome |-> outcome, raised |-> FALSE],
                         ids, route, clock)} :
       /\ jobs' = st.jobs
       /\ log' = st.log
       /\ cmds' = st.cmds
       /\ ran' = st.ran
       /\ outcome' = st.outcome
       /\ pc' = IF st.raised THEN "crashed" ELSE "main"
  /\ UNCHANGED <<prayerVars, diffVars, written, passed, stampVars, clock, route,
                 ledVars, loopVars>>

\* schedule.run_pending()
RunPending == RunJobs(pendingIds(jobs, clock))

\* schedule.run_all()
RunAll == RunJobs(allIds(jobs))

NextBlock == Register \/ Tick \/ RunPending \/ RunAll

SpecBlock == InitBlock /\ [][NextBlock]_vars

(***************************************************************************)
(* Specification of blinkLED: one call, an iteration of a loop per step.   *)
(***************************************************************************)
\* the speeds in milliseconds: the floor of main.py 51-52, led.py 56 and
\* test_led.py 11
LedSpeeds == {500, 3000, 12000}

InitLed ==
  /\ pc = "rise"
  /\ speed \in LedSpeeds
  /\ duties = <<>>
  /\ sleeps = <<>>
  /\ PrayerIdle
  /\ DiffIdle
  /\ MainIdle
  /\ StampIdle
  /\ BlockIdle
  /\ LoopIdle

\* led.py 41-43: pin.ChangeDutyCycle(percentage); time.sleep(DUTY_DELAY)
Rise ==
  /\ pc = "rise"
  /\ Len(duties) < Len(rising)
  /\ duties' = Append(duties, rising[Len(duties) + 1])
  /\ sleeps' = Append(sleeps, DUTY_DELAY(speed))
  /\ pc' = IF Len(duties') = Len(rising) THEN "fall" ELSE "rise"
  /\ UNCHANGED <<prayerVars, diffVars, mainVars, stampVars, blockVars, speed, loopVars>>

\* led.py 45-47
Fall ==
  /\ pc = "fall"
  /\ Len(duties) - Len(rising) < Len(falling)
  /\ duties' = Append(duties, falling[Len(duties) - Len(rising) + 1])
  /\ sleeps' = Append(sleeps, DUTY_DELAY(speed))
  /\ pc' = IF Len(duties') = Len(rising) + Len(falling) THEN "blinked" ELSE "fall"
  /\ UNCHANGED <<prayerVars, diffVars, mainVars, stampVars, blockVars, speed, loopVars>>

NextLed == Rise \/ Fall

SpecLed == InitLed /\ [][NextLed]_vars

(***************************************************************************)
(* Specification of main's loop (main.py 47-90): while the scheduler has a *)
(* next run an iteration blinks the LED and runs the pending jobs,         *)
(* otherwise it computes the next five prayers and registers their jobs.   *)
(* An exception leaves main() and is logged by the handler around it.      *)
(***************************************************************************)
\* the most batches of jobs registered in one behaviour
MaxBatches == 3

\* config.json for Khobar
Khobar ==
  [longitude |-> 50000, latitude |-> 26600, timezone |-> 3,
   fajr_isha |-> "umm_alqura", asr |-> "standard"]

\* 60 degrees north, where the table of 2019-04-22 has no fajr
North ==
  [longitude |-> 0, latitude |-> 60000, timezone |-> 0,
   fajr_isha |-> "muslim_league", asr |-> "standard"]

\* a configuration with a convention key that is not in the table
Mistyped == [Khobar EXCEPT !.asr = "unknown"]

\* midnight of 2019-04-20
NorthDate == 7049 * DAY

\* the days after the first whose tables a behaviour may need: a batch is
\* over within two days
AlmanacDays == 2 * MaxBatches + 2

\* computeAllPrayerTimes for the configuration cfg on the days from d on
Almanac(cfg, d) ==
  [start  |-> d,
   tables |-> [k \in 1..(AlmanacDays + 1) |-> TableOf(cfg, d + (k - 1) * DAY)]]

\* the table of the almanac for the day d
TableOn(alm, d) == alm.tables[(d - alm.start) \div DAY + 1]

\* nextFivePrayers with the two tables it computes taken from the almanac
nextFiveFrom(alm, n) ==
  FiveAfter(TableOn(alm, Midnight(n)), TableOn(alm, Midnight(n) + DAY), n)

\* the configuration and the clock at the start of the program
MainStarts ==
  {<<Khobar, BlockDay0>>, <<Khobar, BlockDay0 + 12 * 3600>>,
   <<North, NorthDate>>, <<Mistyped, BlockDay0>>}

InitMain ==
  /\ pc = "loop"
  /\ \E s \in MainStarts : config = s[1] /\ clock = s[2]
  /\ route \in RouteResults
  /\ date = 0
  /\ table = NotCalled
  /\ now = 0
  /\ prayers = NotCalled
  /\ log = <<>>
  /\ cmds = <<>>
  /\ ran = NoRuns
  /\ outcome = "none"
  /\ DiffIdle
  /\ MainIdle
  /\ StampIdle
  /\ LedIdle
  /\ iter = <<>>
  /\ batches = 0
  /\ almanac = Almanac(config, Midnight(clock))

\* main.py 56-83: no job is registered; the next five prayers from the clock
\* on, the prayer file, a job per prayer.  An exception of the selector
\* leaves main().  The selector's two tables are those of the almanac, which
\* holds what computeAllPrayerTimes returns for main's four arguments.
MainCompute ==
  /\ pc = "loop"
  /\ ~hasNextRun(jobs)
  /\ batches < MaxBatches
  /\ Midnight(clock) + DAY <= almanac.start + AlmanacDays * DAY
  /\ now' = clock
  /\ passed' = <<<<config.longitude, config.latitude>>, config.timezone,
                 config.fajr_isha, config.asr>>
  /\ prayers' = nextFiveFrom(almanac, clock)
  /\ written' = IF prayers'.status = "ok" THEN writePrayerTimes(prayers'.table)
                ELSE written
  /\ jobs' = IF prayers'.status = "ok"
             THEN scheduleAll(jobs, Len(ran), clock, prayers'.table)
             ELSE jobs
  /\ ran' = IF prayers'.status = "ok" THEN ran \o [i \in 1..5 |-> 0] ELSE ran
  /\ iter' = computeCalls(prayers'.status)
  /\ batches' = IF prayers'.status = "ok" THEN batches + 1 ELSE batches
  /\ outcome' = IF prayers'.status = "ok" THEN outcome ELSE prayers'.status
  /\ pc' = loopAfter(prayers'.status # "ok")
  /\ UNCHANGED <<config, date, table, diffVars, stampVars, clock, route, log,
                 cmds, ledVars, almanac>>

\* main.py 49-54: a job is registered; the LED fades up and down once while
\* the time to the call of run_pending passes
MainBlink ==
  /\ pc = "loop"
  /\ hasNextRun(jobs)
  /\ pc' = "run"
  /\ iter' = blinkCalls
  /\ speed' = blinkSpeed(clock, schedulerNextRun(jobs))
  /\ duties' = rising \o falling
  /\ sleeps' = [i \in 1..(Len(rising) + Len(falling)) |-> DUTY_DELAY(speed')]
  /\ clock' = afterBlink(clock, schedulerNextRun(jobs))
  /\ UNCHANGED <<prayerVars, diffVars, mainVars, stampVars, route, log, cmds,
                 ran, outcome, batches, almanac>>

\* main.py 55: schedule.run_pending(); the clock moves on by the time the
\* block commands took
MainRunPending ==
  /\ pc = "run"
  /\ \E st \in {runJobs([jobs |-> jobs, log |-> log, cmds |-> cmds, ran |-> ran,
                          outcome |-> outcome, raised |-> FALSE],
                         pendingIds(jobs, clock), route, clock)} :
       /\ jobs' = st.jobs
       /\ log' = st.log
       /\ cmds' = st.cmds
       /\ ran' = st.ran
       /\ outcome' = st.outcome
       /\ clock' = clock + blockedSeconds(st.log, Len(log))
       /\ iter' = runPendingCalls(iter, st.raised)
       /\ pc' = loopAfter(st.raised)
  /\ UNCHANGED <<prayerVars, diffVars, written, passed, stampVars, route,
                 ledVars, batches, almanac>>

NextMain == MainCompute \/ MainBlink \/ MainRunPending

SpecMain == InitMain /\ [][NextMain]_vars

\* the loop keeps running: time advances and every call returns
SpecMainFair == SpecMain /\ WF_vars(NextMain)

(***************************************************************************)
(* SpecSched: the scheduling loop of prayer.py (prayer.py 474-509) from    *)
(* its start at some time of day.                                          *)
(***************************************************************************)
\* the configuration and the clock at the start of prayer.py
SchedStarts ==
  {<<Khobar, BlockDay0 + h * 3600>> : h \in {0, 6, 12, 15, 18, 23}}
    \cup {<<North, NorthDate + DAY + 12 * 3600>>}

InitSched ==
  /\ pc = "loop"
  /\ \E s \in SchedStarts : config = s[1] /\ clock = s[2]
  /\ route \in RouteResults
  /\ date = 0
  /\ table = NotCalled
  /\ now = 0
  /\ prayers = NotCalled
  /\ log = <<>>
  /\ cmds = <<>>
  /\ ran = NoRuns
  /\ outcome = "none"
  /\ DiffIdle
  /\ MainIdle
  /\ StampIdle
  /\ LedIdle
  /\ iter = <<>>
  /\ batches = 0
  /\ almanac = Almanac(config, Midnight(clock))

\* prayer.py 479-509: no job is registered; the table of today, the prayer
\* file, a job per prayer of the table.  An exception of
\* computeAllPrayerTimes leaves main().  The table is that of the almanac
SchedCompute ==
  /\ pc = "loop"
  /\ ~hasNextRun(jobs)
  /\ batches < MaxBatches
  /\ Midnight(clock) <= almanac.start + AlmanacDays * DAY
  /\ date' = Midnight(clock)
  /\ table' = TableOn(almanac, Midnight(clock))
  /\ written' = IF table'.status = "ok" THEN writePrayerTimes(table'.table)
                ELSE written
  /\ jobs' = IF table'.status = "ok"
             THEN scheduleAll(jobs, Len(ran), clock, table'.table)
             ELSE jobs
  /\ ran' = IF table'.status = "ok" THEN ran \o [i \in 1..5 |-> 0] ELSE ran
  /\ iter' = todayCalls(table'.status)
  /\ batches' = IF table'.status = "ok" THEN batches + 1 ELSE batches
  /\ outcome' = IF table'.status = "ok" THEN outcome ELSE table'.status
  /\ pc' = loopAfter(table'.status # "ok")
  /\ UNCHANGED <<config, now, prayers, diffVars, passed, stampVars, clock,
                 route, log, cmds, ledVars, almanac>>

\* prayer.py 476-478 while no job is due: run_pending runs nothing and
\* sleep(1) lets a second pass; the iterations up to the first due job are
\* taken together
SchedWait ==
  /\ pc = "loop"
  /\ hasNextRun(jobs)
  /\ pendingIds(jobs, clock) = <<>>
  /\ clock' = schedulerNextRun(jobs)
  /\ iter' = waitCalls
  /\ UNCHANGED <<pc, prayerVars, diffVars, mainVars, stampVars, route, log,
                 cmds, ran, outcome, ledVars, batches, almanac>>

\* prayer.py 476-478 with a job due: run_pending runs the due jobs, each
\* block command taking its duration, then sleep(1)
SchedRunPending ==
  /\ pc = "loop"
  /\ hasNextRun(jobs)
  /\ pendingIds(jobs, clock) # <<>>
  /\ \E st \in {prayerRunJobs([jobs |-> jobs, log |-> log, cmds |-> cmds,
                                ran |-> ran, outcome |-> outcome,
                                raised |-> FALSE],
                               pendingJobs(jobs, clock), route)} :
       /\ jobs' = st.jobs
       /\ log' = st.log
       /\ cmds' = st.cmds
       /\ ran' = st.ran
       /\ outcome' = st.outcome
       /\ clock' = clock + blockedSeconds(st.log, Len(log)) + 1
       /\ iter' = waitCalls
       /\ pc' = loopAfter(st.raised)
  /\ UNCHANGED <<prayerVars, diffVars, written, passed, stampVars, route,
                 ledVars, batches, almanac>>

NextSched == SchedCompute \/ SchedWait \/ SchedRunPending

SpecSched == InitSched /\ [][NextSched]_vars

(***************************************************************************)
(* Properties                                                              *)
(***************************************************************************)
Names(tbl) == [i \in 1..Len(tbl) |-> tbl[i].name]

Increasing(tbl) == \A i \in 1..(Len(tbl) - 1) : tbl[i].time < tbl[i + 1].time

ValidKeys ==
  /\ config.fajr_isha \in {"muslim_league", "isna", "egypt", "umm_alqura"}
  /\ config.asr \in {"standard", "hanafi"}

\* C1: whenever nextFivePrayers returns, it returns exactly five entries whose
\* timestamps are in strictly increasing order.
C1_FiveIncreasing ==
  (pc = "next five" /\ prayers.status = "ok")
    => (Len(prayers.table) = 5 /\ Increasing(prayers.table))

\* C2: no entry returned by nextFivePrayers is earlier than the now it was
\* called with.
C2_NoneBeforeNow ==
  (pc = "next five" /\ prayers.status = "ok")
    => \A i \in 1..Len(prayers.table) : prayers.table[i].time >= now

\* C3: called with now equal to today's isha, nextFivePrayers returns
\* tomorrow's five entries; called with now before today's fajr, it returns
\* today's five entries.
C3_IshaAndBeforeFajr ==
  (pc = "next five" /\ prayers.status = "ok")
    => LET today    == TableOf(config, Midnight(now)).table
           tomorrow == TableOf(config, Midnight(now) + DAY).table
       IN  /\ now = today[5].time => prayers.table = tomorrow
           /\ now < today[1].time => prayers.table = today

\* C4: a table returned by computeAllPrayerTimes has exactly the keys fajr,
\* thuhr, asr, maghrib, isha, in that order.
C4_KeyOrder ==
  (pc = "table" /\ ValidKeys /\ table.status = "ok")
    => Names(table.table) = <<"fajr", "thuhr", "asr", "maghrib", "isha">>

C4_Witness ==
  /\ pc = "table"
  /\ table.status = "ok"
  /\ config.fajr_isha = "egypt"
  /\ config.asr = "hanafi"

\* C5: for latitudes within 60 degrees of the equator, the timestamps of a
\* table returned by computeAllPrayerTimes satisfy
\* fajr < thuhr < asr < maghrib < isha.
C5_Ordered ==
  (pc = "table" /\ ValidKeys /\ Abs(config.latitude) <= 60000 /\ table.status = "ok")
    => Increasing(table.table)

\* C6: under umm_alqura, isha is maghrib plus exactly 90 minutes.
C6_UmmAlQuraIsha ==
  (pc = "table" /\ config.fajr_isha = "umm_alqura" /\ table.status = "ok")
    => table.table[5].time = table.table[4].time + 5400

C6_Witness ==
  /\ pc = "table"
  /\ config.fajr_isha = "umm_alqura"
  /\ table.status = "ok"
  /\ table.table[5].name = "isha"

\* C7: with a convention key that is in neither convention table,
\* computeAllPrayerTimes fails before any prayer time is computed and returns
\* no table.
C7_UnknownKeyFails ==
  (pc = "table" /\ ~ValidKeys)
    => (table.status = "KeyError" /\ table.computed = <<>> /\ table.table = <<>>)

C7_Witness ==
  /\ pc = "table"
  /\ config.fajr_isha = "isna"
  /\ config.asr = "unknown"
  /\ table.status = "KeyError"

\* the acos argument of one of the equations computeAllPrayerTimes evaluates
\* for the configuration and the date lies outside [-1, 1]
ArgOutside ==
  LET LAT   == config.latitude
      DEC   == sunEquation(date)[1]
      F_ANG == fajrIshaAngle[config.fajr_isha][1]
      I_ANG == fajrIshaAngle[config.fajr_isha][2]
      SHA   == asrShadow[config.asr]
  IN  \/ Abs(horizonArg(F_ANG, LAT, DEC)) > SCALE
      \/ acotArg(SHA, LAT, DEC) # 0 /\ Abs(asrArg(SHA, LAT, DEC)) > SCALE
      \/ Abs(horizonArg(833, LAT, DEC)) > SCALE
      \/ I_ANG[1] = "angle" /\ Abs(horizonArg(I_ANG[2], LAT, DEC)) > SCALE

\* C8: when the acos argument of a horizon or shadow equation is outside
\* [-1, 1], computeAllPrayerTimes fails with an error and returns no table.
C8_DomainErrorFails ==
  (pc = "table" /\ ValidKeys /\ ArgOutside)
    => (table.status \in {"ValueError", "ZeroDivisionError"} /\ table.table = <<>>)

C8_Witness ==
  /\ pc = "table"
  /\ ValidKeys
  /\ ArgOutside
  /\ table.status = "ValueError"

\* the whole seconds between two instants: the seconds from the earlier to
\* the later one, less one when the microseconds have not caught up
WholeSeconds(a, b) ==
  LET hi == IF Later(a, b) THEN a ELSE b
      lo == IF Later(a, b) THEN b ELSE a
  IN  hi.sec - lo.sec - (IF hi.usec < lo.usec THEN 1 ELSE 0)

\* C9: computeDiff returns non-negative hours, minutes in 0..59 and seconds in
\* 0..59 that add up to the whole seconds of |p1 - p2|.
C9_Decomposition ==
  pc = "diff"
    => /\ diff12[1] >= 0
       /\ diff12[2] \in 0..59
       /\ diff12[3] \in 0..59
       /\ diff12[1] * 3600 + diff12[2] * 60 + diff12[3] = WholeSeconds(p1, p2)

C9_Witness ==
  /\ pc = "diff"
  /\ p1.sec > p2.sec
  /\ p1.usec < p2.usec
  /\ diff12[1] > 0
  /\ diff12[3] = 58

\* C10: computeDiff(a, b) = computeDiff(b, a), and both are (0, 0, 0) when
\* a = b.
C10_Symmetric ==
  pc = "diff"
    => /\ diff12 = diff21
       /\ p1 = p2 => diff12 = <<0, 0, 0>>

C10_Witness ==
  /\ pc = "diff"
  /\ p1.sec = p2.sec
  /\ p1.usec < p2.usec
  /\ diff12 = diff21

\* C11: each time the main loop computes a prayer set it registers exactly
\* five jobs, one per returned prayer in order, each at the hour and minute
\* of that prayer's time of day and each calling blockInternet with the
\* duration configured for that prayer's name.
C11_OneJobPerPrayer ==
  (pc = "next five" /\ prayers.status = "ok")
    => /\ Len(jobs) = 5
       /\ \A i \in 1..5 :
            LET tod == prayers.table[i].time % DAY
                hm  == jobs[i].at
            IN  /\ jobs[i].func = "blockInternet"
                /\ jobs[i].arg = Block[prayers.table[i].name]
                /\ hm[1] \in 0..23
                /\ hm[2] \in 0..59
                /\ hm[1] * 3600 + hm[2] * 60 <= tod
                /\ tod < hm[1] * 3600 + hm[2] * 60 + 60

C11_Witness ==
  /\ pc = "next five"
  /\ prayers.status = "ok"
  /\ Len(jobs) = 5
  /\ prayers.table[1].name = "asr"
  /\ jobs[1].arg = 20
  /\ jobs[5].arg = 15
  /\ prayers.table[1].time % 60 > 0

\* the file holds one member per entry of ps, in the order of ps, each value
\* being the hour and the minute of the entry's time of day
Serialized(file, ps) ==
  /\ Len(file) = Len(ps)
  /\ \A i \in 1..Len(ps) :
       LET tod == ps[i].time % DAY
           hm  == file[i].value
       IN  /\ file[i].key = ps[i].name
           /\ hm[1] \in 0..23
           /\ hm[2] \in 0..59
           /\ hm[1] * 3600 + hm[2] * 60 <= tod
           /\ tod < hm[1] * 3600 + hm[2] * 60 + 60

\* C16: writePrayerTimes writes one key per entry of its input, in the
\* input's order, each value the HH:MM of the entry's timestamp; for a table
\* of computeAllPrayerTimes the keys are fajr, thuhr, asr, maghrib, isha.
C16_PrayerFile ==
  /\ (pc = "table" /\ table.status = "ok")
       => /\ Serialized(written, table.table)
          /\ [i \in 1..Len(written) |-> written[i].key]
               = <<"fajr", "thuhr", "asr", "maghrib", "isha">>
  /\ (pc = "next five" /\ prayers.status = "ok")
       => Serialized(written, prayers.table)

C16_Witness ==
  /\ pc = "next five"
  /\ prayers.status = "ok"
  /\ Len(written) = 5
  /\ written[1].key = "maghrib"
  /\ prayers.table[1].time % 60 >= 30

\* C17: every timestamp returned by nextFivePrayers falls on the calendar
\* date of now or on the date after it.
C17_TodayOrTomorrow ==
  (pc = "next five" /\ prayers.status = "ok")
    => \A i \in 1..Len(prayers.table) :
         Midnight(prayers.table[i].time) \in {Midnight(now), Midnight(now) + DAY}

\* C18: the caller passes one clock value into nextFivePrayers as its fifth
\* argument, and that value is the now the selection works from.
C18_NowPassedOnce ==
  pc = "next five" => (Len(passed) = 5 /\ passed[5] = now)

\* C15: two date arguments on the same calendar day give identical results of
\* computeAllPrayerTimes, whatever their times of day.
C15_DateOnly ==
  pc = "tables" => tableAt = table

\* C12: a wrapper invocation whose wrapped function completes returns
\* CancelJob, whatever the wrapped function returned; every invocation calls
\* the wrapped function exactly once; so a job runs at most once, and once
\* it has completed it is no longer registered with the scheduler.
C12_RunsOnce ==
  /\ \A i \in 1..Len(log) :
       log[i].completed
         => /\ log[i].ret = "CancelJob"
            /\ \A k \in 1..Len(jobs) : jobs[k].id # log[i].job
  /\ \A id \in 1..Len(ran) :
       /\ ran[id] = Cardinality({i \in 1..Len(log) : log[i].job = id})
       /\ ran[id] <= 1

\* C12 happens: a lambda job and then a block job have completed and were
\* removed, and the clock has reached the time of the next day at which
\* they would have been due again
C12_Witness ==
  /\ Len(log) = 2
  /\ log[1].func = "lambda" /\ log[1].completed /\ log[1].ret = "CancelJob"
  /\ log[2].func = "blockInternet" /\ log[2].completed
  /\ jobs = <<>>
  /\ ran = <<1, 1>>
  /\ clock >= log[2].registered[1].next_run + DAY

\* C13: when 'ip route' gives no output, blockInternet raises an OSError
\* and the block command is not started.
C13_EmptyRouteOSError ==
  \A i \in 1..Len(log) :
    (log[i].func = "blockInternet" /\ route.ok /\ route.val = EmptyRoute)
      => /\ log[i].ret = "OSError"
         /\ \A k \in 1..Len(log[i].calls) : log[i].calls[k].call # "Popen"

\* the interface and the gateway of the two outputs with a default route
InterfaceGateway ==
  IF route.val = TestRoute THEN <<"enp0s3", "10.0.2.2">>
  ELSE <<"wlan0", "192.168.1.1">>

C19_LogsFollower ==
  \A i \in 1..Len(log) :
    /\ Len(log[i].registered) = 1 => log[i].line = <<"No next job scheduled!">>
    /\ Len(log[i].registered) >= 2
         => /\ indexOf(log[i].registered, log[i].job) < Len(log[i].registered)
            /\ log[i].line =
                 <<"Next job at",
                   log[i].registered[indexOf(log[i].registered, log[i].job) + 1].next_run>>
    /\ ran[log[i].job] >= 1

\* the sum of s[lo..hi], by halves
RECURSIVE SumSeq(_, _, _)
SumSeq(s, lo, hi) ==
  IF lo > hi THEN 0
  ELSE IF lo = hi THEN s[lo]
  ELSE SumSeq(s, lo, (lo + hi) \div 2) + SumSeq(s, (lo + hi) \div 2 + 1, hi)

\* C20: one call blinkLED(pin, speed) sleeps 200 times, each time for
\* speed/200, 100 times while the duty cycle goes 0, 1, ..., 99 and 100 times
\* while it goes 100, 99, ..., 1, so for speed seconds in total; every duty
\* cycle it sets is between 0 and 100.
C20_BlinkTakesSpeed ==
  /\ Len(sleeps) = Len(duties)
  /\ \A i \in 1..Len(duties) : duties[i] >= 0 /\ duties[i] <= 100
  /\ pc = "blinked"
       => /\ Len(sleeps) = 200
          /\ \A i \in 1..200 : 200 * sleeps[i] = speed * 1000
          /\ SumSeq(sleeps, 1, Len(sleeps)) = speed * 1000
          /\ duties = [i \in 1..200 |-> IF i <= 100 THEN i - 1 ELSE 201 - i]

\* C20 happens: blinkLED(pin, 12) has returned after delays of 60 ms
C20_Witness ==
  /\ pc = "blinked"
  /\ speed = 12000
  /\ sleeps[1] = 60000
  /\ sleeps[200] = 60000
  /\ duties[100] = 99
  /\ duties[101] = 100
  /\ duties[200] = 1

\* the entries of tbl later than n, in the order of tbl
LaterThan(tbl, n) == SelectSeq(tbl, LAMBDA e : e.time > n)

\* five is today's entries later than n followed by the first entries of
\* tomorrow's table
KeepsLater(five, today, tomorrow, n) ==
  /\ SubSeq(five, 1, Remaining(today, n)) = LaterThan(today, n)
  /\ SubSeq(five, Remaining(today, n) + 1, 5)
       = SubSeq(tomorrow, 1, 5 - Remaining(today, n))

\* C22: the entries nextFivePrayers keeps from today's table are exactly the
\* entries later than now (the others are dropped), and it keeps
\* 5 - remainingToday entries from the start of tomorrow's table.
C22_KeepsLaterEntries ==
  (pc = "next five" /\ prayers.status = "ok")
    => KeepsLater(prayers.table, table.table,
                  TableOf(config, Midnight(now) + DAY).table, now)

\* C24: the five entries nextFivePrayers returns carry the five prayer names,
\* each exactly once, whatever the number of today's entries later than now,
\* so main's lookup of the block duration is defined for every entry and the
\* five jobs carry the durations of five different names.
C24_EachNameOnce ==
  (pc = "next five" /\ prayers.status = "ok")
    => /\ Len(prayers.table) = 5
       /\ \A nm \in {"fajr", "thuhr", "asr", "maghrib", "isha"} :
            Cardinality({i \in 1..5 : prayers.table[i].name = nm}) = 1
       /\ \A i \in 1..5 :
            /\ prayers.table[i].name \in DOMAIN Block
            /\ jobs[i].arg = Block[prayers.table[i].name]

\* C24 happens: three entries of today are later than now, so the names are
\* asr, maghrib, isha of today and fajr, thuhr of tomorrow
C24_Witness ==
  /\ pc = "next five"
  /\ prayers.status = "ok"
  /\ Remaining(table.table, now) = 3
  /\ Names(prayers.table) = <<"asr", "maghrib", "isha", "fajr", "thuhr">>
  /\ prayers.table[4].time >= Midnight(now) + DAY

\* the outcome T of an equation is an exception or a timedelta of 0 to 12 hours
WithinHalfDay(T) == T.ok => (T.val >= 0 /\ T.val <= 12 * 3600)

\* the outcomes of horizonEquation for the three angles of the convention
\* cfg and of asrEquation for its shadow length, on the date d
HalfDayEquations(cfg, d, dec) ==
  /\ WithinHalfDay(horizonEquation(fajrIshaAngle[cfg.fajr_isha][1], cfg.latitude, dec))
  /\ WithinHalfDay(horizonEquation(MaghribAngle, cfg.latitude, dec))
  /\ WithinHalfDay(horizonEquation(fajrIshaAngle[cfg.fajr_isha][2][2], cfg.latitude, dec))
  /\ WithinHalfDay(asrEquation(asrShadow[cfg.asr], cfg.latitude, dec))

\* C23: whenever horizonEquation or asrEquation returns, the duration is
\* between 0 and 12 hours inclusive; so in every table computeAllPrayerTimes
\* returns fajr is not later than thuhr, and asr, maghrib and isha are not
\* earlier than thuhr.
C23_AroundThuhr ==
  (pc = "table" /\ ValidKeys)
    => /\ HalfDayEquations(config, date, sunEquation(date)[1])
       /\ table.status = "ok"
            => /\ table.table[1].time <= table.table[2].time
               /\ \A i \in 3..5 : table.table[i].time >= table.table[2].time

\* C23 happens: a table was returned at 60 degrees south in midwinter, where
\* asr comes out later than maghrib but not before thuhr
C23_Witness ==
  /\ pc = "table"
  /\ table.status = "ok"
  /\ config.latitude = -60000
  /\ table.table[3].time > table.table[4].time
  /\ table.table[1].time < table.table[2].time
  /\ table.table[2].time < table.table[4].time

\* tables T1 and T2 of two calls agree on thuhr and maghrib, on fajr and isha
\* too when sameAngles, and on asr too when sameShadow
SameEntries(T1, T2, sameAngles, sameShadow) ==
  (T1.status = "ok" /\ T2.status = "ok")
    => /\ T2.table[2] = T1.table[2]
       /\ T2.table[4] = T1.table[4]
       /\ sameAngles => (T2.table[1] = T1.table[1] /\ T2.table[5] = T1.table[5])
       /\ sameShadow => T2.table[3] = T1.table[3]

\* C30: computeAllPrayerTimes called again with another asrConvention only
\* changes no entry but asr; with another fajrIshaConvention only, no entry
\* but fajr and isha; with another latitude only, thuhr is the same; thuhr
\* and maghrib are the same under every pair of conventions.
C30_ConventionFrame ==
  (pc = "table" /\ table.status = "ok")
    => /\ \A f \in DOMAIN fajrIshaAngle, a \in DOMAIN asrShadow :
            SameEntries(table,
                        TableOf([config EXCEPT !.fajr_isha = f, !.asr = a], date),
                        f = config.fajr_isha, a = config.asr)
       /\ \A lat \in Latitudes :
            LET T2 == TableOf([config EXCEPT !.latitude = lat], date)
            IN  T2.status = "ok" => T2.table[2] = table.table[2]

\* C30 happens: a table under (egypt, hanafi) whose asr differs from the one
\* under (egypt, standard) and whose fajr differs from the one under
\* (isna, hanafi)
C30_Witness ==
  /\ pc = "table"
  /\ table.status = "ok"
  /\ config.fajr_isha = "egypt"
  /\ config.asr = "hanafi"
  /\ TableOf([config EXCEPT !.asr = "standard"], date).status = "ok"
  /\ TableOf([config EXCEPT !.asr = "standard"], date).table[3] # table.table[3]
  /\ TableOf([config EXCEPT !.fajr_isha = "isna"], date).status = "ok"
  /\ TableOf([config EXCEPT !.fajr_isha = "isna"], date).table[1] # table.table[1]

\* C25: the job registered for a returned prayer with timestamp T runs first
\* on the calendar date of T, and the five jobs run first in the order of the
\* returned prayers.
C25_FiresOnPrayerDate ==
  (pc = "next five" /\ prayers.status = "ok")
    => /\ \A i \in 1..5 :
            Midnight(jobs[i].next_run) = Midnight(prayers.table[i].time)
       /\ \A i \in 1..4 : jobs[i].next_run <= jobs[i + 1].next_run

\* the number of times the call c occurs in calls
Count(calls, c) == Cardinality({i \in 1..Len(calls) : calls[i] = c})

\* C21: an iteration of main's loop that finds a next run blinks the LED
\* exactly once and then calls run_pending exactly once, and neither computes
\* prayer times nor registers jobs.
C21_BlinkThenRun ==
  /\ pc = "run" => iter = <<"next_run", "blinkLED">>
  /\ (pc \in {"loop", "ended"} /\ iter # <<>> /\ iter[1] = "next_run")
       => /\ SubSeq(iter, 1, 3) = <<"next_run", "blinkLED", "run_pending">>
          /\ Count(iter, "blinkLED") = 1
          /\ Count(iter, "run_pending") = 1
          /\ Count(iter, "nextFivePrayers") = 0
          /\ Count(iter, "do") = 0
          /\ Len(duties) = 200

\* C21 happens: an iteration with a job registered has blinked the LED and
\* run the job that was due
C21_Witness ==
  /\ pc = "loop"
  /\ iter = <<"next_run", "blinkLED", "run_pending">>
  /\ Len(log) = 1
  /\ log[1].completed
  /\ Len(jobs) = 4
  /\ batches = 1

\* the batch a job belongs to, jobs being numbered as they are created
BatchOf(id) == (id - 1) \div 5 + 1

\* C26: the scheduler never holds more than five jobs, and the jobs it holds
\* were all registered in the same batch, the latest one.
C26_OneBatchAtATime ==
  /\ Len(jobs) <= 5
  /\ \A i \in 1..Len(jobs) : BatchOf(jobs[i].id) = batches

\* C26 happens: the second batch was registered after the five jobs of the
\* first had run, and three of its jobs are still to run
C26_Witness ==
  /\ batches = 2
  /\ Len(jobs) = 3
  /\ \A id \in 1..5 : ran[id] = 1
  /\ jobs[1].id = 8

\* C29: when the function of a job raises, the wrapper does not return
\* CancelJob; the exception leaves run_pending and main(), the handler around
\* main() logs it once, and no job is run after it.
C29_RaisePropagates ==
  \A i \in 1..Len(log) :
    ~log[i].completed
      => /\ log[i].ret # "CancelJob"
         /\ outcome = log[i].ret
         /\ i = Len(log)
         /\ pc = "ended"
         /\ Count(iter, "logging.exception") = 1
         /\ iter[Len(iter)] = "logging.exception"

\* C29 happens: 'ip route' had no output, the first block job raised
\* IndexError, and the program has ended with the other four jobs registered
C29_Witness ==
  /\ pc = "ended"
  /\ route.ok
  /\ route.val = EmptyRoute
  /\ Len(log) = 1
  /\ ~log[1].completed
  /\ log[1].ret = "IndexError"
  /\ outcome = "IndexError"
  /\ Len(jobs) = 5
  /\ iter = <<"next_run", "blinkLED", "run_pending", "logging.exception">>

\* 'ip route' reports a default route, so that every block command is
\* started and finishes
GoodRoute == route.ok /\ route.val \in {TestRoute, HomeRoute}

\* the five jobs of batch b have each run once and are no longer registered,
\* and the next batch is registered
BatchDone(b) ==
  /\ batches = b + 1
  /\ Len(jobs) = 5
  /\ \A id \in (5 * b - 4)..(5 * b) :
       /\ ran[id] = 1
       /\ \A k \in 1..Len(jobs) : jobs[k].id # id

\* nextFivePrayers raised and the program has ended
SelectorRaised == pc = "ended" /\ prayers.status \notin {"ok", "not called"}

C28_RemovesOnlyItself ==
  \A k \in 1..Len(log) :
    log[k].completed => log[k].left = removeJob(log[k].registered, log[k].job)

====
